---- MODULE Spec2Model ----
(***************************************************************************)
(* Model of helper.py: the chunked H3 indexer (process_file_with_h3,       *)
(* compute_h3_index) and the ring-neighbour aggregator                     *)
(* (compute_neighbours_col, compute_neighbours_costs_for_row).             *)
(*                                                                         *)
(* The third-party primitives (h3.geo_to_h3, h3.h3_distance, np.mean, the  *)
(* DuckDB connection and the ParquetWriter) are modelled by what the code  *)
(* relies on: geo_to_h3 is a partial function that raises on coordinates   *)
(* it cannot convert, h3_distance is a non-negative integer metric,        *)
(* np.mean is the arithmetic mean over floats (NaN propagates), and every  *)
(* I/O call either succeeds or raises.                                     *)
(***************************************************************************)
EXTENDS Integers, Sequences, FiniteSets, TLC

VARIABLES
    \* ---- process_file_with_h3 ----
    input_file,     \* rows stored in the input Parquet file
    chunk_size,     \* the chunk_size argument
    pc,             \* position of the call
    conn,           \* "none" | "open" | "closed"
    connCloses,     \* number of conn.close() calls
    total_rows,     \* result of SELECT COUNT(*)
    offset,         \* loop variable of the for statement
    df_chunk,       \* the chunk in memory
    writer,         \* "None" | "open" | "closed"
    writerOpens,    \* number of ParquetWriter objects constructed
    writerCloses,   \* number of writer.close() calls
    output_file,    \* sequence of tables appended to the output file
    stdout,         \* lines printed
    failed,         \* steps that raised, in order
    \* ---- neighbour aggregator ----
    df,             \* the DataFrame of hexagons
    row,            \* index of the centre row in df
    apc,            \* position of the aggregator call
    result          \* the finished call: function, arguments, locals, value

ivars == <<input_file, chunk_size, pc, conn, connCloses, total_rows, offset,
           df_chunk, writer, writerOpens, writerCloses, output_file, stdout,
           failed>>
avars == <<df, row, apc, result>>
vars  == <<input_file, chunk_size, pc, conn, connCloses, total_rows, offset,
           df_chunk, writer, writerOpens, writerCloses, output_file, stdout,
           failed, df, row, apc, result>>

----------------------------------------------------------------------------
(* Bounds of the model *)

MaxInputRows == 3
MaxDfRows == 3
MaxDistance == 4

(* Program constants *)

DefaultResolution == 8

----------------------------------------------------------------------------
(* Values *)

Min(a, b) == IF a <= b THEN a ELSE b

\* A float cell of a DataFrame column: a number, or null / NaN.
Num(x) == [null |-> FALSE, v |-> x]
Null == [null |-> TRUE, v |-> 0]

Lats == {Num(45), Num(46), Num(200), Null}
Lons == {Num(7), Null}
InputRows == [lat : Lats, lon : Lons]

SeqsUpTo(S, n) == UNION {[1..k -> S] : k \in 0..n}

RECURSIVE Gcd(_, _)
Gcd(a, b) == IF b = 0 THEN a ELSE Gcd(b, a % b)

\* A float: NaN, or the number num / den (kept in lowest terms).
NaN == [nan |-> TRUE, num |-> 0, den |-> 1]
Float(n, d) ==
    LET g == Gcd(n, d)
    IN  [nan |-> FALSE, num |-> n \div g, den |-> d \div g]

\* The outcome of a call: a returned value, or an exception.
Return(x) == [raised |-> FALSE, value |-> x]
Raise == [raised |-> TRUE, value |-> ""]

----------------------------------------------------------------------------
(* compute_h3_index *)

\* The identifier the grid library gives a convertible coordinate.
CellId(latv, lonv, resolution) ==
    CASE latv = 45 /\ lonv = 7 /\ resolution = 8 -> "881f9a4507fffff"
      [] latv = 46 /\ lonv = 7 /\ resolution = 8 -> "881f9a4607fffff"
      [] OTHER -> "8800000000fffff"

\* h3.geo_to_h3: the cell identifier of a convertible coordinate, an
\* exception for a coordinate the library cannot convert.
geo_to_h3(lat, lon, resolution) ==
    IF lat.null \/ lon.null \/ lat.v < -90 \/ lat.v > 90
          \/ lon.v < -180 \/ lon.v > 180
    THEN Raise
    ELSE Return(CellId(lat.v, lon.v, resolution))

\* compute_h3_index without its try/except.
compute_h3_index_no_except(lat, lon, resolution) ==
    geo_to_h3(lat, lon, resolution)

compute_h3_index(lat, lon, resolution) ==
    LET r == geo_to_h3(lat, lon, resolution)
    IN  IF r.raised THEN Return("unknown") ELSE r

----------------------------------------------------------------------------
(* process_file_with_h3 *)

ChunkSizes == (0 - 1)..(MaxInputRows + 1)

NoResult ==
    [fn |-> "", max_distance |-> 0, col |-> "", costs |-> <<>>, value |-> <<>>]

IdleAggregator ==
    /\ df = <<>>
    /\ row = 0
    /\ apc = "idle"
    /\ result = NoResult

Init ==
    /\ input_file \in SeqsUpTo(InputRows, MaxInputRows)
    /\ chunk_size \in ChunkSizes
    /\ pc = "connect"
    /\ conn = "none"
    /\ connCloses = 0
    /\ total_rows = 0
    /\ offset = 0
    /\ df_chunk = <<>>
    /\ writer = "None"
    /\ writerOpens = 0
    /\ writerCloses = 0
    /\ output_file = <<>>
    /\ stdout = <<>>
    /\ failed = <<>>
    /\ IdleAggregator

Line(m, n) == [msg |-> m, n |-> n]

\* Entry of the finally block: writer.close() is called only if writer is set.
Finally(w) == IF w = "open" THEN "finally_writer" ELSE "finally_conn"

\* conn = duckdb.connect()
Connect ==
    /\ pc = "connect"
    /\ conn' = "open"
    /\ pc' = "count"
    /\ UNCHANGED <<input_file, chunk_size, connCloses, total_rows, offset,
                   df_chunk, writer, writerOpens, writerCloses, output_file,
                   stdout, failed>>
    /\ UNCHANGED avars

\* total_rows = conn.execute("SELECT COUNT(*) ...").fetchone()[0]; print; writer = None
CountRows ==
    /\ pc = "count"
    /\ total_rows' = Len(input_file)
    /\ stdout' = Append(stdout, Line("Total rows", Len(input_file)))
    /\ pc' = "range"
    /\ UNCHANGED <<input_file, chunk_size, conn, connCloses, offset, df_chunk,
                   writer, writerOpens, writerCloses, output_file, failed>>
    /\ UNCHANGED avars

\* The COUNT query raises (unreadable input): it runs before the try
\* statement, so the exception leaves the function directly.
CountRowsFail ==
    /\ pc = "count"
    /\ failed' = Append(failed, "count")
    /\ pc' = "raised"
    /\ UNCHANGED <<input_file, chunk_size, conn, connCloses, total_rows,
                   offset, df_chunk, writer, writerOpens, writerCloses,
                   output_file, stdout>>
    /\ UNCHANGED avars

\* range(0, total_rows, chunk_size): a zero step raises ValueError inside
\* the try statement.
RangeError ==
    /\ pc = "range"
    /\ chunk_size = 0
    /\ failed' = Append(failed, "range")
    /\ pc' = Finally(writer)
    /\ UNCHANGED <<input_file, chunk_size, conn, connCloses, total_rows,
                   offset, df_chunk, writer, writerOpens, writerCloses,
                   output_file, stdout>>
    /\ UNCHANGED avars

Range ==
    /\ pc = "range"
    /\ chunk_size # 0
    /\ offset' = 0
    /\ pc' = "for"
    /\ UNCHANGED <<input_file, chunk_size, conn, connCloses, total_rows,
                   df_chunk, writer, writerOpens, writerCloses, output_file,
                   stdout, failed>>
    /\ UNCHANGED avars

\* A range that yields only offsets of full chunks.
InRange_full_chunks_only(o, stop, step) ==
    IF step > 0 THEN o + step <= stop ELSE o > stop

\* Whether range(0, stop, step) yields the value o.
InRange(o, stop, step) ==
    IF step > 0 THEN o < stop ELSE o > stop

\* for offset in range(...): the next offset, or the end of the loop.
ForNext ==
    /\ pc = "for"
    /\ pc' = IF InRange(offset, total_rows, chunk_size)
             THEN "read" ELSE Finally(writer)
    /\ UNCHANGED <<input_file, chunk_size, conn, connCloses, total_rows,
                   offset, df_chunk, writer, writerOpens, writerCloses,
                   output_file, stdout, failed>>
    /\ UNCHANGED avars

\* A query that ignores OFFSET.
SelectLimitOffset_no_offset(file, limit, off) ==
    SubSeq(file, 1, Min(limit, Len(file)))

\* SELECT * FROM input LIMIT chunk_size OFFSET offset
SelectLimitOffset(file, limit, off) ==
    SubSeq(file, off + 1, Min(off + limit, Len(file)))

ReadChunk ==
    /\ pc = "read"
    /\ df_chunk' = SelectLimitOffset(input_file, chunk_size, offset)
    /\ pc' = "transform"
    /\ UNCHANGED <<input_file, chunk_size, conn, connCloses, total_rows,
                   offset, writer, writerOpens, writerCloses, output_file,
                   stdout, failed>>
    /\ UNCHANGED avars

ReadChunkFail ==
    /\ pc = "read"
    /\ failed' = Append(failed, "read")
    /\ pc' = Finally(writer)
    /\ UNCHANGED <<input_file, chunk_size, conn, connCloses, total_rows,
                   offset, df_chunk, writer, writerOpens, writerCloses,
                   output_file, stdout>>
    /\ UNCHANGED avars

\* df_chunk.apply(lambda row: compute_h3_index(row['lat'], row['lon']), axis=1)
ApplyH3(chunk) ==
    [i \in 1..Len(chunk) |->
        compute_h3_index(chunk[i].lat, chunk[i].lon, DefaultResolution)]

\* df_chunk['h3_index'] = ...; table = pa.Table.from_pandas(df_chunk).
\* An exception escaping compute_h3_index aborts the apply.
Transform ==
    /\ pc = "transform"
    /\ LET col == ApplyH3(df_chunk)
       IN  IF \E i \in 1..Len(col) : col[i].raised
           THEN /\ failed' = Append(failed, "conversion")
                /\ pc' = Finally(writer)
                /\ UNCHANGED df_chunk
           ELSE /\ df_chunk' = [i \in 1..Len(df_chunk) |->
                                   [lat |-> df_chunk[i].lat,
                                    lon |-> df_chunk[i].lon,
                                    h3_index |-> col[i].value]]
                /\ pc' = IF writer = "None" THEN "open" ELSE "write"
                /\ UNCHANGED failed
    /\ UNCHANGED <<input_file, chunk_size, conn, connCloses, total_rows,
                   offset, writer, writerOpens, writerCloses, output_file,
                   stdout>>
    /\ UNCHANGED avars

\* The apply or the Arrow conversion raises for a reason other than a
\* coordinate (a missing column, memory).
TransformFail ==
    /\ pc = "transform"
    /\ failed' = Append(failed, "transform")
    /\ pc' = Finally(writer)
    /\ UNCHANGED <<input_file, chunk_size, conn, connCloses, total_rows,
                   offset, df_chunk, writer, writerOpens, writerCloses,
                   output_file, stdout>>
    /\ UNCHANGED avars

\* if writer is None: writer = pq.ParquetWriter(output_file, table.schema, ...)
OpenWriter ==
    /\ pc = "open"
    /\ writer = "None"
    /\ writer' = "open"
    /\ writerOpens' = writerOpens + 1
    /\ pc' = "write"
    /\ UNCHANGED <<input_file, chunk_size, conn, connCloses, total_rows,
                   offset, df_chunk, writerCloses, output_file, stdout,
                   failed>>
    /\ UNCHANGED avars

\* The constructor raises: writer stays None.
OpenWriterFail ==
    /\ pc = "open"
    /\ writer = "None"
    /\ failed' = Append(failed, "open")
    /\ pc' = Finally(writer)
    /\ UNCHANGED <<input_file, chunk_size, conn, connCloses, total_rows,
                   offset, df_chunk, writer, writerOpens, writerCloses,
                   output_file, stdout>>
    /\ UNCHANGED avars

\* writer.write_table(table); print(...); the for statement advances.
WriteChunk ==
    /\ pc = "write"
    /\ output_file' = Append(output_file, df_chunk)
    /\ stdout' = Append(stdout,
                        Line("Processed and written chunk with offset", offset))
    /\ offset' = offset + chunk_size
    /\ pc' = "for"
    /\ UNCHANGED <<input_file, chunk_size, conn, connCloses, total_rows,
                   df_chunk, writer, writerOpens, writerCloses, failed>>
    /\ UNCHANGED avars

WriteChunkFail ==
    /\ pc = "write"
    /\ failed' = Append(failed, "write")
    /\ pc' = Finally(writer)
    /\ UNCHANGED <<input_file, chunk_size, conn, connCloses, total_rows,
                   offset, df_chunk, writer, writerOpens, writerCloses,
                   output_file, stdout>>
    /\ UNCHANGED avars

\* finally: if writer: writer.close()
CloseWriter ==
    /\ pc = "finally_writer"
    /\ writer = "open"
    /\ writer' = "closed"
    /\ writerCloses' = writerCloses + 1
    /\ pc' = "finally_conn"
    /\ UNCHANGED <<input_file, chunk_size, conn, connCloses, total_rows,
                   offset, df_chunk, writerOpens, output_file, stdout, failed>>
    /\ UNCHANGED avars

\* writer.close() raises (the footer cannot be written): the rest of the
\* finally block is skipped and the exception leaves the function.
CloseWriterFail ==
    /\ pc = "finally_writer"
    /\ writer = "open"
    /\ writerCloses' = writerCloses + 1
    /\ failed' = Append(failed, "close_writer")
    /\ pc' = "raised"
    /\ UNCHANGED <<input_file, chunk_size, conn, connCloses, total_rows,
                   offset, df_chunk, writer, writerOpens, output_file, stdout>>
    /\ UNCHANGED avars

\* conn.close(); print("Processing complete."); then the function returns,
\* or the pending exception propagates.
CloseConn ==
    /\ pc = "finally_conn"
    /\ conn' = "closed"
    /\ connCloses' = connCloses + 1
    /\ stdout' = Append(stdout, Line("Processing complete.", 0))
    /\ pc' = IF failed = <<>> THEN "returned" ELSE "raised"
    /\ UNCHANGED <<input_file, chunk_size, total_rows, offset, df_chunk,
                   writer, writerOpens, writerCloses, output_file, failed>>
    /\ UNCHANGED avars

Next ==
    \/ Connect
    \/ CountRows
    \/ CountRowsFail
    \/ RangeError
    \/ Range
    \/ ForNext
    \/ ReadChunk
    \/ ReadChunkFail
    \/ Transform
    \/ TransformFail
    \/ OpenWriter
    \/ OpenWriterFail
    \/ WriteChunk
    \/ WriteChunkFail
    \/ CloseWriter
    \/ CloseWriterFail
    \/ CloseConn

Spec == Init /\ [][Next]_vars

----------------------------------------------------------------------------
(* compute_neighbours_col, compute_neighbours_costs_for_row *)

\* Hexagons on one axis of the grid, named by their position on it.
HexIds == {0, 1, 3, 7}
Costs == {Float(10, 1), Float(20, 1), NaN}
Columns == {"cost_of_living", "population"}

\* A row of the hexagon DataFrame; population is a second numeric column.
HexRow(h, c) ==
    [hex_id |-> h, cost_of_living |-> c, population |-> Float(100 + h, 1)]
HexRows == {HexRow(h, c) : h \in HexIds, c \in Costs}

\* h3.h3_distance: the number of grid steps between two cells.
h3_distance(a, b) == IF a >= b THEN a - b ELSE b - a

\* The test of line 60 with the centre's own cell let through.
IsNeighbour_distance_zero_included(distance, max_distance) ==
    distance >= 0 /\ distance <= max_distance

\* The test of line 60 keeping only the outer band of the ring.
IsNeighbour_outer_band_only(distance, max_distance) ==
    distance > 0 /\ distance = max_distance

\* if distance > 0 and distance <= max_distance
IsNeighbour(distance, max_distance) ==
    distance > 0 /\ distance <= max_distance

\* The list costs when the loop over df.iterrows() ends.
RECURSIVE CollectCosts(_, _, _, _)
CollectCosts(center, frame, max_distance, col) ==
    IF frame = <<>> THEN <<>>
    ELSE LET comp_to == Head(frame)
             candid == comp_to.hex_id
             distance == h3_distance(center, candid)
         IN  (IF IsNeighbour(distance, max_distance)
              THEN <<comp_to[col]>> ELSE <<>>)
             \o CollectCosts(center, Tail(frame), max_distance, col)

RECURSIVE FloatSum(_)
FloatSum(xs) ==
    IF xs = <<>> THEN Float(0, 1)
    ELSE LET a == Head(xs)
             b == FloatSum(Tail(xs))
         IN  IF a.nan \/ b.nan THEN NaN
             ELSE Float(a.num * b.den + b.num * a.den, a.den * b.den)

\* np.mean of a non-empty list of floats: NaN as soon as one element is NaN.
np_mean(xs) ==
    LET s == FloatSum(xs)
    IN  IF s.nan THEN NaN ELSE Float(s.num, s.den * Len(xs))

\* compute_neighbours_col returning 0 for an empty list.
compute_neighbours_col_zero_when_empty(r, frame, max_distance, col) ==
    LET costs == CollectCosts(r.hex_id, frame, max_distance, col)
    IN  IF Len(costs) = 0 THEN Float(0, 1) ELSE np_mean(costs)

compute_neighbours_col(r, frame, max_distance, col) ==
    LET costs == CollectCosts(r.hex_id, frame, max_distance, col)
    IN  IF Len(costs) = 0 THEN NaN ELSE np_mean(costs)

\* compute_neighbours_costs_for_row with two list elements exchanged.
compute_neighbours_costs_for_row_swapped(r, frame) ==
    << compute_neighbours_col(r, frame, 1, "cost_of_living"),
       compute_neighbours_col(r, frame, 3, "cost_of_living"),
       compute_neighbours_col(r, frame, 2, "cost_of_living"),
       compute_neighbours_col(r, frame, 4, "cost_of_living") >>

compute_neighbours_costs_for_row(r, frame) ==
    << compute_neighbours_col(r, frame, 1, "cost_of_living"),
       compute_neighbours_col(r, frame, 2, "cost_of_living"),
       compute_neighbours_col(r, frame, 3, "cost_of_living"),
       compute_neighbours_col(r, frame, 4, "cost_of_living") >>

IdleIndexer ==
    /\ input_file = <<>>
    /\ chunk_size = 1
    /\ pc = "idle"
    /\ conn = "none"
    /\ connCloses = 0
    /\ total_rows = 0
    /\ offset = 0
    /\ df_chunk = <<>>
    /\ writer = "None"
    /\ writerOpens = 0
    /\ writerCloses = 0
    /\ output_file = <<>>
    /\ stdout = <<>>
    /\ failed = <<>>

\* A DataFrame of hexagons and one of its rows, as DataFrame.apply passes it.
InitAgg ==
    /\ df \in SeqsUpTo(HexRows, MaxDfRows)
    /\ df # <<>>
    /\ row \in 1..Len(df)
    /\ apc = "start"
    /\ result = NoResult
    /\ IdleIndexer

\* A call compute_neighbours_col(row, df, max_distance, col).
CallNeighboursCol ==
    /\ apc = "start"
    /\ \E d \in 0..MaxDistance, c \in Columns :
          result' = [fn |-> "compute_neighbours_col",
                     max_distance |-> d,
                     col |-> c,
                     costs |-> CollectCosts(df[row].hex_id, df, d, c),
                     value |-> <<compute_neighbours_col(df[row], df, d, c)>>]
    /\ apc' = "returned"
    /\ UNCHANGED <<df, row>>
    /\ UNCHANGED ivars

\* A call compute_neighbours_costs_for_row(row, df).
CallNeighboursCostsForRow ==
    /\ apc = "start"
    /\ result' = [fn |-> "compute_neighbours_costs_for_row",
                  max_distance |-> 0,
                  col |-> "cost_of_living",
                  costs |-> <<>>,
                  value |-> compute_neighbours_costs_for_row(df[row], df)]
    /\ apc' = "returned"
    /\ UNCHANGED <<df, row>>
    /\ UNCHANGED ivars

NextAgg ==
    \/ CallNeighboursCol
    \/ CallNeighboursCostsForRow

SpecAgg == InitAgg /\ [][NextAgg]_vars

----------------------------------------------------------------------------
(* Properties of the neighbour aggregator *)

ColCall == result.fn = "compute_neighbours_col"
RowCall == result.fn = "compute_neighbours_costs_for_row"

Dist(j) == h3_distance(df[row].hex_id, df[j].hex_id)

\* The rows of df within max_distance d of the centre, the centre's cell excluded.
Ring(d) == {j \in 1..Len(df) : Dist(j) > 0 /\ Dist(j) <= d}

Count(xs, x) == Cardinality({i \in 1..Len(xs) : xs[i] = x})

\* Whether the lists a and b hold the same values the same number of times.
SameBag(a, b) ==
    /\ Len(a) = Len(b)
    /\ \A i \in 1..Len(a) : Count(a, a[i]) = Count(b, a[i])

SubBag(a, b) == \A i \in 1..Len(a) : Count(a, a[i]) <= Count(b, a[i])

RECURSIVE SumOver(_, _)
SumOver(J, col) ==
    IF J = {} THEN 0
    ELSE LET j == CHOOSE k \in J : TRUE
         IN  df[j][col].num + SumOver(J \ {j}, col)

\* The arithmetic mean of column col over the rows J of df (whole numbers).
MeanOver(J, col) ==
    IF J = {} \/ (\E j \in J : df[j][col].nan) THEN NaN
    ELSE Float(SumOver(J, col), Cardinality(J))

\* The values of column col in the rows of the ring.
RingValues(d, col) ==
    LET rows == SelectSeq(df, LAMBDA r :
                    LET x == h3_distance(df[row].hex_id, r.hex_id)
                    IN  x > 0 /\ x <= d)
    IN  [k \in 1..Len(rows) |-> rows[k][col]]

\* df without the rows that lie in the centre's own cell.
WithoutCentreCell ==
    SelectSeq(df, LAMBDA r : h3_distance(df[row].hex_id, r.hex_id) # 0)

\* C5: no row at grid distance 0 from the centre contributes: the list
\* collected has one entry per row of the ring and none for the centre's
\* cell, the result is the one obtained with every row of the centre's cell
\* deleted from df, and for rows [(A,10),(A,10),(B,20)] with
\* distance(A,B) = 1 the first row's mean at distance 1 is 20.
C5_DistanceZeroExcluded ==
    ColCall =>
        /\ Len(result.costs) = Cardinality(Ring(result.max_distance))
        /\ result.value[1] =
              compute_neighbours_col(df[row], WithoutCentreCell,
                                     result.max_distance, result.col)
        /\ (/\ df = <<HexRow(0, Float(10, 1)), HexRow(0, Float(10, 1)),
                      HexRow(1, Float(20, 1))>>
            /\ row = 1
            /\ result.max_distance = 1
            /\ result.col = "cost_of_living")
              => result.value[1] = Float(20, 1)

\* The example of C5 after the call.
C5_Witness ==
    /\ ColCall
    /\ df = <<HexRow(0, Float(10, 1)), HexRow(0, Float(10, 1)),
              HexRow(1, Float(20, 1))>>
    /\ row = 1
    /\ result.max_distance = 1
    /\ result.col = "cost_of_living"
    /\ result.value = <<Float(20, 1)>>

\* C6 as stated: the sentinel is returned exactly when the collected list is
\* empty, and a row with no neighbour within distance 4 gets it in every
\* position.
C6_SentinelIffEmpty ==
    /\ ColCall => (result.value[1].nan <=> Ring(result.max_distance) = {})
    /\ (RowCall /\ Ring(4) = {}) => \A i \in 1..4 : result.value[i].nan

\* C6 amended: an empty ring gives the sentinel, a row with no neighbour
\* within distance 4 gets it in every position, and the sentinel is returned
\* only when the ring is empty or one of the collected values is itself NaN.
C6_SentinelWhenEmptyOrNaN ==
    /\ ColCall =>
          /\ Ring(result.max_distance) = {} => result.value[1].nan
          /\ result.value[1].nan =>
                \/ Ring(result.max_distance) = {}
                \/ \E j \in Ring(result.max_distance) : df[j][result.col].nan
    /\ (RowCall /\ Ring(4) = {}) =>
          /\ Len(result.value) = 4
          /\ \A i \in 1..4 : result.value[i].nan

\* A row of a three-row table with no neighbour within distance 4.
C6_Witness ==
    /\ RowCall
    /\ Len(df) = 3
    /\ Ring(4) = {}
    /\ result.value = <<NaN, NaN, NaN, NaN>>

DistanceLists == {<<1, 2, 3, 4>>, <<4, 3, 2, 1>>, <<2>>}

\* C7 as stated: whatever list of distances and attribute the caller
\* specifies, position i of the per-row result is the neighbour mean of that
\* attribute for the i-th distance.
C7_CallerSpecified ==
    RowCall =>
        \A ds \in DistanceLists, a \in Columns :
            result.value = [i \in 1..Len(ds) |-> MeanOver(Ring(ds[i]), a)]

\* C7 amended: compute_neighbours_costs_for_row has no distances or
\* attribute parameter; it returns exactly four results, position i being
\* the neighbour mean of cost_of_living for distance i (1, 2, 3, 4 in that
\* order). The distance and the column are the caller's only in
\* compute_neighbours_col, whose result is the mean of the given column for
\* the given distance.
C7_FixedDistancesInOrder ==
    /\ RowCall =>
          result.value = [i \in 1..4 |-> MeanOver(Ring(i), "cost_of_living")]
    /\ ColCall =>
          result.value[1] = MeanOver(Ring(result.max_distance), result.col)

\* A per-row result whose positions differ where the rings differ, over a
\* table whose other column would give other means.
C7_Witness ==
    /\ RowCall
    /\ df[row].hex_id = 0
    /\ result.value = <<Float(10, 1), Float(10, 1), Float(15, 1), Float(15, 1)>>
    /\ MeanOver(Ring(3), "population") = Float(102, 1)

\* C10 as stated: the values collected for distance d are exactly the
\* attribute values of the rows of the ring, the collection for d is
\* contained in the collection for every d' >= d, and once a distance yields
\* a non-sentinel mean every larger distance does too.
C10_CumulativeNonSentinelMonotone ==
    /\ ColCall =>
          /\ SameBag(result.costs, RingValues(result.max_distance, result.col))
          /\ \A d2 \in result.max_distance..MaxDistance :
                SubBag(result.costs,
                       CollectCosts(df[row].hex_id, df, d2, result.col))
    /\ RowCall =>
          \A i \in 1..4 : \A k \in i..4 :
              ~result.value[i].nan => ~result.value[k].nan

\* C10 amended: the values collected for distance d are exactly the
\* attribute values of the rows of the ring, the collection for d is
\* contained in the collection for every d' >= d, and once a distance
\* collects at least one value every larger distance does too; a non-sentinel
\* mean at d stays non-sentinel at d' >= d unless a NaN attribute value is
\* collected at d'.
C10_CumulativeMonotone ==
    /\ ColCall =>
          /\ SameBag(result.costs, RingValues(result.max_distance, result.col))
          /\ \A d2 \in result.max_distance..MaxDistance :
                LET larger == CollectCosts(df[row].hex_id, df, d2, result.col)
                IN  /\ SubBag(result.costs, larger)
                    /\ result.costs # <<>> => larger # <<>>
    /\ RowCall =>
          \A i \in 1..4 : \A k \in i..4 :
              (/\ ~result.value[i].nan
               /\ \A j \in Ring(k) : ~df[j].cost_of_living.nan)
                  => ~result.value[k].nan

\* A call for distance 2 whose collection is strictly smaller than the
\* collection for distance 3.
C10_Witness ==
    /\ ColCall
    /\ result.max_distance = 2
    /\ Len(result.costs) = 1
    /\ Len(CollectCosts(df[row].hex_id, df, 3, result.col)) = 2

----------------------------------------------------------------------------
(* Properties of process_file_with_h3 *)

RECURSIVE Flatten(_)
Flatten(tables) ==
    IF tables = <<>> THEN <<>>
    ELSE Head(tables) \o Flatten(Tail(tables))

\* The rows the output file holds, in file order.
Written == Flatten(output_file)

\* What the grid library says about a coordinate, as the h3_index text.
LibraryIndex(lat, lon) ==
    LET r == geo_to_h3(lat, lon, DefaultResolution)
    IN  IF r.raised THEN "unknown" ELSE r.value

\* The enriched input: every input row, in input order, with its index.
Enriched(file) ==
    [i \in 1..Len(file) |->
        [lat |-> file[i].lat, lon |-> file[i].lon,
         h3_index |-> LibraryIndex(file[i].lat, file[i].lon)]]

Has(seq, x) == \E i \in 1..Len(seq) : seq[i] = x

CompleteLine == Line("Processing complete.", 0)

ChunkSteps == {"read", "transform", "conversion", "open", "write"}

\* C1 as stated: whenever the call returns normally, for every chunk_size,
\* the number of rows written equals the number of input rows.
C1_RowCountAnyChunkSize ==
    pc = "returned" => Len(Written) = Len(input_file)

\* C1 amended: whenever the call returns normally and chunk_size >= 1, the
\* output holds exactly one row per input row, the i-th written row being
\* the i-th input row, whether or not chunk_size divides the row count.
C1_RowCountPositiveChunkSize ==
    (pc = "returned" /\ chunk_size >= 1) =>
        /\ Len(Written) = Len(input_file)
        /\ \A i \in 1..Len(Written) :
              /\ Written[i].lat = input_file[i].lat
              /\ Written[i].lon = input_file[i].lon

\* A run over 3 rows in chunks of 2 (uneven division) that returned.
C1_Witness ==
    /\ pc = "returned"
    /\ chunk_size = 2
    /\ Len(input_file) = 3
    /\ Len(output_file) = 2
    /\ Len(Written) = 3

\* C2 as stated: for chunk_size >= 1 the rows written are the enriched input
\* in input order whatever the chunk size, and a chunk_size larger than the
\* row count writes exactly one chunk.
C2_ChunkInvariantSingleChunk ==
    (pc = "returned" /\ chunk_size >= 1) =>
        /\ Written = Enriched(input_file)
        /\ chunk_size > total_rows => Len(output_file) = 1

\* C2 amended: for chunk_size >= 1 the rows written are the enriched input
\* in input order whatever the chunk size; a chunk_size at least the row
\* count writes exactly one chunk when there is at least one row, and an
\* empty input writes no chunk at all.
C2_ChunkInvariant ==
    (pc = "returned" /\ chunk_size >= 1) =>
        /\ Written = Enriched(input_file)
        /\ (chunk_size >= total_rows /\ total_rows >= 1) =>
              Len(output_file) = 1
        /\ total_rows = 0 => output_file = <<>>

\* A completed run over at least two rows whose chunk_size exceeds the row
\* count and wrote them as a single chunk.
C2_Witness ==
    /\ pc = "returned"
    /\ chunk_size > total_rows
    /\ total_rows >= 2
    /\ Len(output_file) = 1
    /\ Written = Enriched(input_file)

\* C3: on every exit path the connection is closed exactly once, and the
\* writer is closed exactly once if it was opened and never otherwise.
C3_ResourcesClosedOnce ==
    pc \in {"returned", "raised"} =>
        /\ connCloses = 1
        /\ writerCloses = (IF writerOpens >= 1 THEN 1 ELSE 0)

\* C4: compute_h3_index never raises, so no run is aborted by a coordinate;
\* every row of a transformed or written chunk carries "unknown" exactly
\* when the library cannot convert it and the library's identifier otherwise;
\* and a completed run has written every row, the bad ones included.
C4_ConversionNeverRaises ==
    /\ ~Has(failed, "conversion")
    /\ \A i \in 1..Len(Written) :
          Written[i].h3_index = LibraryIndex(Written[i].lat, Written[i].lon)
    /\ pc \in {"open", "write"} =>
          \A i \in 1..Len(df_chunk) :
             df_chunk[i].h3_index =
                LibraryIndex(df_chunk[i].lat, df_chunk[i].lon)
    /\ (pc = "returned" /\ chunk_size >= 1) =>
          \A i \in 1..Len(input_file) :
             geo_to_h3(input_file[i].lat, input_file[i].lon,
                       DefaultResolution).raised
                => (i <= Len(Written) /\ Written[i].h3_index = "unknown")

\* A completed run that wrote a bad row as "unknown" next to a good row.
C4_Witness ==
    /\ pc = "returned"
    /\ \E i \in 1..Len(Written) :
          /\ Written[i].h3_index = "unknown"
          /\ Written[i].lat = Num(200)
    /\ \E i \in 1..Len(Written) : Written[i].h3_index = "881f9a4507fffff"

\* C8: in a run where a chunk read, transform or write failed before all
\* rows were written, the completion line is not printed.
C8_CompleteOnlyWhenAllWritten ==
    (/\ \E k \in 1..Len(failed) : failed[k] \in {"read", "transform", "write"}
     /\ Len(Written) < Len(input_file))
        => ~Has(stdout, CompleteLine)

\* The chunk lines printed so far, in order.
ChunkOffsets ==
    LET lines == SelectSeq(stdout,
                    LAMBDA l : l.msg = "Processed and written chunk with offset")
    IN  [k \in 1..Len(lines) |-> lines[k].n]

\* The part of C9 about the order of chunks and the prefix left by a failure.
C9_SequentialPrefix ==
    chunk_size >= 1 =>
        /\ ChunkOffsets = [k \in 1..Len(output_file) |-> (k - 1) * chunk_size]
        /\ pc \in {"read", "transform", "open", "write"} =>
              Len(Written) = offset
        /\ writerOpens <= 1
        /\ writerOpens = 1 <=> (output_file # <<>> \/ pc = "write"
                                   \/ (pc \in {"finally_writer", "finally_conn",
                                               "raised", "returned"}
                                       /\ writer # "None"))
        /\ (Len(failed) > 0 /\ failed[1] \in ChunkSteps) =>
              /\ Len(Written) = offset
              /\ Written = SubSeq(Enriched(input_file), 1, offset)

\* C9: chunks are handled one after another in increasing offset order, the
\* writer is opened once, a failure while handling chunk k leaves exactly
\* chunks 0..k-1 in the output, and the failure reaches the caller only
\* after the cleanup (writer closed if opened, connection closed) has run.
C9_SequentialPrefixThenCleanup ==
    /\ C9_SequentialPrefix
    /\ (pc = "raised" /\ failed[1] \in ChunkSteps) =>
          /\ conn = "closed"
          /\ writerOpens = 1 => writer = "closed"

====
